---- MODULE Spec2Model ----
(***************************************************************************)
(* ArkViewer export pipeline (src/common/exporter.py and its callers in    *)
(* src/common/tasks.py): the change check, the supervision of the external *)
(* ASVExport tool, the ingestion of its output files into cache.exports    *)
(* and the dedup of the tribe-log stream against cache.tribelog_buffer.    *)
(*                                                                         *)
(* Tasks of the asyncio event loop are modelled with one program counter   *)
(* each; a task's step runs from one suspension point of the code to a     *)
(* later one.  The file system and the external tool are the environment.  *)
(***************************************************************************)
EXTENDS Naturals, Integers, Sequences, FiniteSets, TLC

\* ------------------------------------------------------------------ bounds
\* Number of overlapping invocations of process_export the trigger may make.
MaxCallers == 2
\* Distinct payload versions the tool may write into an opaque dataset file.
MaxVer == 2
\* Largest modification time of the save file, in whole seconds.
MaxSec == 2
\* Largest modification time (whole seconds) of an auxiliary data file.
MaxAuxMtime == 2
\* Longest entry list the tool writes for a tribe.
MaxLogs == 3
\* Largest os.cpu_count() and largest configured thread budget.
MaxCpus == 4
MaxPath == 3
MaxRecs == 2
MaxThreads == 5

\* ------------------------------------------------------- program constants
\* load_outputs gives up on an empty file once waiting exceeds this.
MAX_WAIT == 10

\* ----------------------------------------------------------------- domains
Startup == 0
Callers == 1 .. MaxCallers
Tasks == {Startup} \cup Callers

\* Output files of the tool, in the order load_outputs walks them.
FileOrder == <<"ASV_Players", "ASV_TribeLogs">>
Stems == {FileOrder[i] : i \in 1 .. Len(FileOrder)}
Keys == {"players", "tribelogs"}

\* Extension-less data files of the cluster directory and one with a suffix.
AuxOrder == <<"cluster1", "cluster1.tmp">>
AuxNames == {AuxOrder[i] : i \in 1 .. Len(AuxOrder)}

\* A modification time (st_mtime, a float): whole seconds and a fraction of
\* a second in tenths.  Never is the 0.0 that cache.map_last_modified starts
\* with; every file's mtime is at least one second.
Mtimes(fracs) == {[sec |-> s, frac |-> f] : s \in 1 .. MaxSec, f \in fracs}
Never == [sec |-> 0, frac |-> 0]
WholeSeconds == {0}
HalfSeconds == {0, 5}
AuxMtimes == 1 .. MaxAuxMtime

\* Tribe identifiers are 1 and 12 (0 stands for a missing or falsy
\* "tribeid"); the texts of log entries are sequences of characters
\* (digits): <<3>>, <<2, 3>> and <<4>>.

\* ------------------------------------------------------ contents of a file
\* kind: "absent" (no file), "empty" (size zero), "partial" (non-empty, not
\* parseable), "null" (parses to a falsy value), "valid" (parses to a
\* non-empty value).  ver identifies an opaque payload; recs is the "data"
\* list of the tribe-log dataset.
Absent == [kind |-> "absent", ver |-> 0, recs |-> <<>>]
Empty == [kind |-> "empty", ver |-> 0, recs |-> <<>>]
Partial == [kind |-> "partial", ver |-> 0, recs |-> <<>>]
Null == [kind |-> "null", ver |-> 0, recs |-> <<>>]
Payload(v) == [kind |-> "valid", ver |-> v, recs |-> <<>>]
TribeLogs(recs) == [kind |-> "valid", ver |-> 0, recs |-> recs]

\* One per-tribe record of the tribe-log dataset.  logkind: "list" (a list
\* of entries), "missing" (no "logs" key), "bad" (a "logs" value that cannot
\* be iterated, such as null).
Rec(tid, logs) == [tribeid |-> tid, logkind |-> "list", logs |-> logs]
RecNoLogs(tid) == [tribeid |-> tid, logkind |-> "missing", logs |-> <<>>]
RecBadLogs(tid) == [tribeid |-> tid, logkind |-> "bad", logs |-> <<>>]

\* ---------------------------------------------------------- pure functions
\* export_file.stem.replace("ASV_", "").lower().strip()
KeyOf(stem) ==
    CASE stem = "ASV_Players" -> "players"
      [] stem = "ASV_TribeLogs" -> "tribelogs"
      [] OTHER -> "other"

StemOf(key) == CHOOSE s \in Stems : KeyOf(s) = key

\* pathlib's file.suffix is non-empty
HasSuffix(name) == name = "cluster1.tmp"

\* int(st_mtime): whole seconds of a modification time
IntSec(m) == m.sec

\* str(tribe_id): the decimal digits of a positive integer
RECURSIVE Digits(_)
Digits(n) == IF n < 10 THEN <<n>> ELSE Digits(n \div 10) \o <<n % 10>>

\* md5(f"{tribe_id}{entry}".encode()).hexdigest(): the digest is taken over
\* the plain concatenation; md5 itself is taken to be injective.
Hash(tid, entry) == Digits(tid) \o entry

\* `if key in cache.tribelog_buffer: continue`
Seen_never(buf, key) == FALSE
Seen(buf, key) == key \in buf

\* cache.tribelog_buffer.add(key)
AddSeen(buf, key) == buf \cup {key}

\* The inner loop of _precache over one record's entries: returns the
\* buffer and the retained entries.
RECURSIVE PrecacheLogs(_, _, _, _, _)
PrecacheLogs(tid, logs, buf, first_run, new_logs) ==
    IF logs = <<>> THEN [buf |-> buf, new_logs |-> new_logs]
    ELSE LET entry == Head(logs)
             key == Hash(tid, entry)
         IN IF Seen(buf, key)
            THEN PrecacheLogs(tid, Tail(logs), buf, first_run, new_logs)
            ELSE PrecacheLogs(tid, Tail(logs), AddSeen(buf, key), first_run,
                              IF first_run THEN new_logs
                              ELSE Append(new_logs, entry))

\* `if new_logs:` (line 271): the record is kept.
KeepRecord_always(new_logs) == TRUE
KeepRecord(new_logs) == new_logs # <<>>

\* The outer loop of _precache over the records of data["data"]: returns the
\* buffer, the new payload and whether an exception was raised.
RECURSIVE PrecacheRecs(_, _, _, _)
PrecacheRecs(recs, buf, first_run, payload) ==
    IF recs = <<>> THEN [buf |-> buf, recs |-> payload, raised |-> FALSE]
    ELSE LET i == Head(recs)
         IN IF i.logkind = "missing" \/ i.tribeid = 0
            THEN PrecacheRecs(Tail(recs), buf, first_run, payload)
            ELSE IF i.logkind = "bad"
            THEN [buf |-> buf, recs |-> payload, raised |-> TRUE]
            ELSE LET r == PrecacheLogs(i.tribeid, i.logs, buf, first_run, <<>>)
                 IN PrecacheRecs(Tail(recs), r.buf, first_run,
                                 IF KeepRecord(r.new_logs)
                                 THEN Append(payload, [i EXCEPT !.logs = r.new_logs])
                                 ELSE payload)

\* The <<tribe, entry>> pairs of the records of a dataset that carry a
\* tribe identifier and a list of entries.
PairsOf(recs) ==
    UNION {{<<recs[i].tribeid, recs[i].logs[j]>> : j \in 1 .. Len(recs[i].logs)} :
             i \in {n \in 1 .. Len(recs) :
                      recs[n].logkind = "list" /\ recs[n].tribeid # 0}}

\* min(a, b)
Min(a, b) == IF a < b THEN a ELSE b

\* The characters of the class [a-zA-Z0-9_\.:/\\] that occur in the paths
\* considered, and the paths: non-empty strings over these, a space, a tab
\* and a hyphen.
PathChars == {"a", "Z", "0", "_", ".", ":", "/", "\\"}
Chars == {"a", "/", " ", "\t", "-"}
Paths == UNION {[1 .. n -> Chars] : n \in 1 .. MaxPath}

\* re.match(r"^[a-zA-Z0-9_\.:/\\]+", s): the length of the match at the start
\* of s, 0 when there is none.
RECURSIVE Match(_)
Match(s) ==
    IF s = <<>> \/ Head(s) \notin PathChars THEN 0 ELSE 1 + Match(Tail(s))

validate_path(path_str) ==
    IF \E i \in 1 .. Len(path_str) : path_str[i] = " " THEN FALSE
    ELSE Match(path_str) > 0

\* The loop of get_affinity_mask that fills options: k iterations of
\* `for _ in range(cpus)` are still to run.
RECURSIVE OptionsLoop(_, _, _)
OptionsLoop(k, num, options) ==
    IF k = 0 THEN options
    ELSE IF options = <<>>
    THEN OptionsLoop(k - 1, num, Append(options, num))
    ELSE OptionsLoop(k - 1, num * 2, Append(options, num * 2))

\* The slice options[-n:] of a Python list.
LastN_lowest(options, n) == SubSeq(options, 1, Min(n, Len(options)))
LastN(options, n) ==
    IF n = 0 THEN options
    ELSE IF n > 0
    THEN SubSeq(options, (IF n >= Len(options) THEN 1 ELSE Len(options) - n + 1),
                Len(options))
    ELSE SubSeq(options, Min(0 - n, Len(options)) + 1, Len(options))

\* sum(options)
RECURSIVE SumSeq(_)
SumSeq(q) == IF q = <<>> THEN 0 ELSE Head(q) + SumSeq(Tail(q))

\* hex(mask) of a positive integer: the hexadecimal digits after "0x", most
\* significant first.
RECURSIVE Hex(_)
Hex(n) == IF n < 16 THEN <<n>> ELSE Hex(n \div 16) \o <<n % 16>>

\* get_affinity_mask(threads) on a machine where os.cpu_count() is cpus
\* (`or 1` when it is unknown, 0 here).
get_affinity_mask(cpus0, threads0) ==
    LET cpus == IF cpus0 = 0 THEN 1 ELSE cpus0
        n == IF threads0 > cpus THEN cpus ELSE threads0
        options == LastN(OptionsLoop(cpus, 1, <<>>), n)
    IN Hex(IF options # <<>> THEN SumSeq(options) ELSE 1)

\* cpu_range = f"0-{threads - 1}" if threads > 1 else "0" (line 156), as the
\* numbers the string is made of.
CpuRange_upto(n) == IF n > 1 THEN <<0, n>> ELSE <<0>>
CpuRange(n) == IF n > 1 THEN <<0, n - 1>> ELSE <<0>>

\* The cores taskset pins to for a range "a-b" or a single core "a".
CoresOf(range) == IF Len(range) = 1 THEN {range[1]} ELSE range[1] .. range[2]

\* The affinity arguments of the command _process_export builds: the mask
\* after /AFFINITY on Windows, the numbers of taskset's core range on Linux.
NoCommand == [mask |-> <<>>, cpu_range |-> <<>>]
Command(windows, cpus0, budget) ==
    LET available_cores == IF cpus0 = 0 THEN 1 ELSE cpus0
        n == Min(available_cores, budget)
    IN IF windows
       THEN [mask |-> get_affinity_mask(cpus0, n), cpu_range |-> <<>>]
       ELSE [mask |-> <<>>, cpu_range |-> CpuRange(n)]

\* _precache(data) run against the buffer buf
Precache(recs, buf) == PrecacheRecs(recs, buf, buf = {}, <<>>)

\* --------------------------------------------------------------- variables
VARIABLES
    IS_WINDOWS,                  \* constants.IS_WINDOWS (fixed for a run)
    cluster_dir,                 \* cache.cluster_dir is set (fixed for a run)
    reprocess_on_arkdata_update, \* cache.reprocess_on_arkdata_update
    cpu_count,                   \* os.cpu_count() (fixed for a run)
    threads,                     \* cache.threads (fixed for a run)
    map_file,                    \* str(cache.map_file), a sequence of characters
    target,                      \* the argument of the load_outputs call made outside the cycles
    mapExists,                   \* cache.map_file.exists()
    mapMtime,                    \* cache.map_file.stat().st_mtime
    exeExists,                   \* cache.exe_file.exists()
    clusterExists,               \* cache.cluster_dir.exists()
    clusterFiles,                \* name -> int(st_mtime), 0 when there is no such file
    outFiles,                    \* stem -> contents of output_dir/<stem>.json
    toolCur,                     \* the tool process launched by the running cycle is alive
    toolOld,                     \* a tool process launched by an earlier cycle is alive
    command,                     \* affinity arguments of the last launch command
    syncing,                     \* cache.syncing
    exports,                     \* cache.exports: key -> dataset (Absent: no such key)
    tribelog_buffer,             \* cache.tribelog_buffer
    map_last_modified,           \* cache.map_last_modified (Never: 0.0)
    last_file_states,            \* exporter.last_file_states (isset FALSE: None)
    pc,                          \* task -> position in its coroutine
    loc,                         \* task -> locals of load_outputs / _process_export
    event,                       \* history: what the last step of the program did
    ingested,                    \* history: _precache has run at least once
    occurred,                    \* history: <<tribe, entry>> pairs _precache has met
    delivered,                   \* history: <<tribe, entry>> pairs stored so far
    dirty                        \* history: an mtime changed since the last change check

config == <<IS_WINDOWS, cluster_dir, reprocess_on_arkdata_update, cpu_count, threads,
           map_file, target>>
mapFile == <<mapExists, mapMtime>>
cluster == <<clusterExists, clusterFiles>>
tool == <<toolCur, toolOld, command>>
cacheVars == <<syncing, exports, tribelog_buffer, map_last_modified>>
history == <<event, ingested, occurred, delivered, dirty>>
vars == <<config, mapFile, exeExists, cluster, outFiles, tool, cacheVars,
          last_file_states, pc, loc, history>>

\* The locals of a task: files (the files still to load, the current one
\* first), waiting, dump and pid are the code's; read (the dump as parsed),
\* seen0 (the buffer when _precache started), before (the pairs earlier runs
\* of _precache had met by then) and first (no _precache had run before this
\* one) are history.
NoLocals == [files |-> <<>>, waiting |-> 0, dump |-> Absent, pid |-> "none",
             read |-> Absent, seen0 |-> {}, before |-> {}, first |-> FALSE]

\* What a step did: task, kind and the file it was about.  waited:
\* load_outputs slept on the file before it went past the wait loop.
\* tries: for a file given up on after a parse error, the calls of
\* orjson.loads load_outputs made on it.
Event(t, kind, stem) ==
    [task |-> t, kind |-> kind, stem |-> stem, waited |-> FALSE, tries |-> 0]
FileEvent(t, kind, stem, waiting) ==
    [task |-> t, kind |-> kind, stem |-> stem, waited |-> waiting > 0,
     tries |-> IF kind = "skip_parse" THEN 1 ELSE 0]

\* ------------------------------------------------------- scan_cluster_dir
\* The loop of scan_cluster_dir over cluster_dir.glob("*") from position n on,
\* on an initialised map m: stops at the first tracked file whose mtime
\* differs, records a file it does not track yet.
RECURSIVE ScanFrom(_, _)
ScanFrom(n, m) ==
    IF n > Len(AuxOrder) THEN [modified |-> FALSE, m |-> m]
    ELSE LET file == AuxOrder[n]
         IN IF clusterFiles[file] = 0 \/ HasSuffix(file)
            THEN ScanFrom(n + 1, m)
            ELSE IF m[file] = 0
            THEN ScanFrom(n + 1, [m EXCEPT ![file] = clusterFiles[file]])
            ELSE IF m[file] # clusterFiles[file]
            THEN [modified |-> TRUE, m |-> m]
            ELSE ScanFrom(n + 1, m)

Untracked == [n \in AuxNames |-> 0]

\* The tracking map the first scan builds (lines 32-36): the mtime of every
\* extension-less file there is.
Seeded == [n \in AuxNames |-> IF HasSuffix(n) THEN 0 ELSE clusterFiles[n]]

\* The value the seeding scan returns (line 37).
FirstScan_modified == Seeded # Untracked
FirstScan == FALSE

\* scan_cluster_dir() called with last_file_states = lfs: the value
\* returned and the new last_file_states.
scan_cluster_dir(lfs) ==
    IF ~cluster_dir \/ ~clusterExists
    THEN [modified |-> FALSE, lfs |-> lfs]
    ELSE IF ~lfs.isset
    THEN [modified |-> FirstScan, lfs |-> [isset |-> TRUE, m |-> Seeded]]
    ELSE LET r == ScanFrom(1, lfs.m)
         IN [modified |-> r.modified, lfs |-> [isset |-> TRUE, m |-> r.m]]

\* ------------------------------------------------------------ wipe_output
\* `cache.exports.clear()`
ClearedExports_kept == exports
ClearedExports == [k \in Keys |-> Absent]

\* wipe_output(): every *.json of the output directory is unlinked and the
\* exports are cleared; nothing else of the cache is touched.
wipe_output_all ==
    /\ outFiles' = [s \in Stems |-> Absent]
    /\ exports' = ClearedExports
    /\ tribelog_buffer' = {}

wipe_output ==
    /\ outFiles' = [s \in Stems |-> Absent]
    /\ exports' = ClearedExports
    /\ UNCHANGED tribelog_buffer

\* ----------------------------------------------------------- the scheduler
\* No task is inside a blocking call (subprocess.run blocks the event loop).
LoopFree == \A t \in Tasks : pc[t] # "blocked"

\* `if cache.syncing: return` at the head of process_export
AlreadySyncing_never == FALSE
AlreadySyncing == syncing

\* The end of process_export: `finally: cache.syncing = False`, the caller is
\* back between two ticks.
Return(c, kind) ==
    /\ pc' = [pc EXCEPT ![c] = "idle"]
    /\ loc' = [loc EXCEPT ![c] = NoLocals]
    /\ syncing' = FALSE
    /\ event' = Event(c, kind, "")

\* The change check of _process_export (lines 111-128) against the tracking
\* map lfs: whether an export is needed, and the tracking map afterwards.
NeedsExport_aux(lfs) ==
    IF map_last_modified # Never /\ reprocess_on_arkdata_update /\ cluster_dir /\ clusterExists
    THEN LET r == scan_cluster_dir(lfs)
         IN [needed |-> r.modified, lfs |-> r.lfs]
    ELSE [needed |-> TRUE, lfs |-> lfs]
NeedsExport(lfs) ==
    IF map_last_modified # Never
    THEN IF IntSec(map_last_modified) = IntSec(mapMtime)
         THEN IF reprocess_on_arkdata_update /\ cluster_dir /\ clusterExists
              THEN LET r == scan_cluster_dir(lfs)
                   IN [needed |-> r.modified, lfs |-> r.lfs]
              ELSE [needed |-> FALSE, lfs |-> lfs]
         ELSE [needed |-> TRUE, lfs |-> lfs]
    ELSE [needed |-> TRUE, lfs |-> lfs]

\* `if not cache.exe_file.exists()`
ExeMissing_never == FALSE
ExeMissing == ~exeExists

\* The change check compares every modification time it is configured to
\* watch: the cluster directory is not watched, or the save file is at its
\* baseline and scan_cluster_dir is called.
Compared ==
    \/ ~(reprocess_on_arkdata_update /\ cluster_dir /\ clusterExists)
    \/ map_last_modified # Never /\ IntSec(map_last_modified) = IntSec(mapMtime)

\* What launching the tool can do.  "ok": the tool process is created;
\* "nostart": `start` returns and no tool process ever exists; "error": chmod
\* or subprocess.run raises.
LaunchOutcomes == IF IS_WINDOWS THEN {"ok", "nostart"} ELSE {"ok", "error"}

\* _process_export() entered by caller c with syncing just set, run up to
\* its first suspension point; lfs is last_file_states on entry.
_process_export(c, lfs) ==
    /\ UNCHANGED <<ingested, occurred, delivered>>
    /\ IF ~mapExists
       THEN /\ wipe_output
            /\ Return(c, "wipe")
            /\ last_file_states' = lfs
            /\ UNCHANGED <<map_last_modified, tool, dirty>>
       ELSE IF ExeMissing
       THEN /\ Return(c, "no_exe")
            /\ last_file_states' = lfs
            /\ UNCHANGED <<outFiles, exports, tribelog_buffer, map_last_modified,
                           tool, dirty>>
       ELSE LET chk == NeedsExport(lfs)
            IN /\ last_file_states' = chk.lfs
               /\ dirty' = (dirty /\ ~Compared)
               /\ UNCHANGED <<outFiles, exports, tribelog_buffer>>
               /\ IF ~chk.needed
                  THEN /\ Return(c, "unchanged")
                       /\ UNCHANGED <<map_last_modified, tool>>
                  ELSE /\ map_last_modified' = mapMtime
                       /\ \E outcome \in LaunchOutcomes :
                            /\ toolOld' = (toolOld \/ toolCur)
                            /\ toolCur' = (outcome = "ok")
                            /\ command' = Command(IS_WINDOWS, cpu_count, threads)
                            /\ syncing' = TRUE
                            /\ loc' = [loc EXCEPT ![c] = NoLocals]
                            /\ pc' = [pc EXCEPT ![c] =
                                        IF outcome = "error" THEN "load"
                                        ELSE IF IS_WINDOWS THEN "wait_exist"
                                        ELSE "blocked"]
                            /\ event' = Event(c, IF outcome = "error"
                                                 THEN "launch_error" ELSE "launch", "")

\* process_export() called by the interval job (Windows) or by an iteration
\* of export_loop (Linux).
process_export(c) ==
    /\ pc[c] = "idle"
    /\ \A d \in Callers : d < c => pc[d] # "idle"
    /\ LoopFree
    /\ UNCHANGED <<config, mapFile, exeExists, cluster>>
    /\ IF AlreadySyncing
       THEN /\ event' = Event(c, "noop", "")
            /\ UNCHANGED <<outFiles, tool, cacheVars, last_file_states, pc, loc,
                           ingested, occurred, delivered, dirty>>
       ELSE _process_export(c, last_file_states)

\* export_loop() up to its first suspension point: the initial scan of the
\* cluster directory, then the first call of process_export.
export_loop(c) ==
    /\ pc[c] = "start"
    /\ LoopFree
    /\ UNCHANGED <<config, mapFile, exeExists, cluster>>
    /\ LET lfs == IF reprocess_on_arkdata_update /\ cluster_dir /\ clusterExists
                  THEN scan_cluster_dir(last_file_states).lfs
                  ELSE last_file_states
       IN IF AlreadySyncing
          THEN /\ event' = Event(c, "noop", "")
               /\ pc' = [pc EXCEPT ![c] = "idle"]
               /\ last_file_states' = lfs
               /\ UNCHANGED <<outFiles, tool, cacheVars, loc, ingested, occurred, delivered, dirty>>
          ELSE _process_export(c, lfs)

\* ------------------------------------------------------ process supervision
\* subprocess.run(command) returns: the tool it ran in the foreground has
\* exited (Linux).
SubprocessReturn(c) ==
    /\ pc[c] = "blocked"
    /\ ~toolCur
    /\ pc' = [pc EXCEPT ![c] = "wait_exist"]
    /\ event' = Event(c, "ran", "")
    /\ UNCHANGED <<config, mapFile, exeExists, cluster, outFiles, tool, cacheVars,
                   last_file_states, loc, ingested, occurred, delivered, dirty>>

\* psutil.process_iter() holds a process whose name contains "ASVExport"
ToolPids == (IF toolCur THEN {"cur"} ELSE {}) \cup (IF toolOld THEN {"old"} ELSE {})

\* `if not pid: log.error("Failed to start export process"); return`
NoPid_load(c) ==
    /\ pc' = [pc EXCEPT ![c] = "load"]
    /\ event' = Event(c, "no_pid", "")
    /\ UNCHANGED <<loc, syncing>>
NoPid(c) == Return(c, "no_pid")

\* utils.wait_for_process_to_exist("ASVExport") and lines 194-197: a pid is
\* found, or none within wait_time and the cycle returns.
wait_for_process_to_exist(c) ==
    /\ pc[c] = "wait_exist"
    /\ LoopFree
    /\ UNCHANGED <<config, mapFile, exeExists, cluster, outFiles, tool,
                   exports, tribelog_buffer, map_last_modified, last_file_states,
                   ingested, occurred, delivered, dirty>>
    /\ IF ToolPids # {}
       THEN \E pid \in ToolPids :
              /\ pc' = [pc EXCEPT ![c] = "wait_stop"]
              /\ loc' = [loc EXCEPT ![c].pid = pid]
              /\ event' = Event(c, "pid", "")
              /\ UNCHANGED syncing
       ELSE NoPid(c)

\* psutil.pid_exists(pid)
PidExists(pid) == IF pid = "cur" THEN toolCur ELSE toolOld

\* utils.wait_for_pid_to_stop(pid): returns True once the pid is gone, False
\* once wait_time has passed; _process_export ignores the value and goes on
\* to load_outputs.
wait_for_pid_to_stop(c) ==
    /\ pc[c] = "wait_stop"
    /\ LoopFree
    /\ pc' = [pc EXCEPT ![c] = "load"]
    /\ event' = Event(c, IF PidExists(loc[c].pid) THEN "timeout" ELSE "stopped", "")
    /\ UNCHANGED <<config, mapFile, exeExists, cluster, outFiles, tool, cacheVars,
                   last_file_states, loc, ingested, occurred, delivered, dirty>>

\* ------------------------------------------------------------ load_outputs
\* load_outputs is over for task t: the startup task ends; a cycle returns
\* through process_export's finally.
Finish_noclear(t, kind, stem) ==
    /\ pc' = [pc EXCEPT ![t] = IF t = Startup THEN "done" ELSE "idle"]
    /\ loc' = [loc EXCEPT ![t] = NoLocals]
    /\ UNCHANGED syncing
    /\ event' = FileEvent(t, kind, stem, loc[t].waiting)
Finish(t, kind, stem) ==
    /\ pc' = [pc EXCEPT ![t] = IF t = Startup THEN "done" ELSE "idle"]
    /\ loc' = [loc EXCEPT ![t] = NoLocals]
    /\ syncing' = IF t = Startup THEN syncing ELSE FALSE
    /\ event' = FileEvent(t, kind, stem, loc[t].waiting)

\* The for loop of load_outputs goes on to the file after the current one.
NextFile_stop(t, kind) == Finish(t, kind, Head(loc[t].files))
NextFile(t, kind) ==
    LET stem == Head(loc[t].files)
        rest == Tail(loc[t].files)
    IN IF rest = <<>>
       THEN /\ Finish(t, kind, stem)
       ELSE /\ pc' = [pc EXCEPT ![t] = "file"]
            /\ loc' = [loc EXCEPT ![t] = [NoLocals EXCEPT !.files = rest]]
            /\ event' = FileEvent(t, kind, stem, loc[t].waiting)
            /\ UNCHANGED syncing

\* target.lower() for the targets considered
Lower(s) ==
    CASE s = "PLAYERS" -> "players"
      [] s = "TribeLogs" -> "tribelogs"
      [] OTHER -> s

\* load_outputs(target: str = ""): no target; and the target of the call
\* made by task t: the cycles call load_outputs() (line 209).
NoTarget == ""
TargetOf(t) == IF t = Startup THEN target ELSE NoTarget

\* `if target and target.lower() != key: continue` (lines 224-225)
SkipsTarget_never(tgt, key) == FALSE
SkipsTarget(tgt, key) == tgt # NoTarget /\ Lower(tgt) # key

\* files = list(cache.output_dir.glob("*.json"))
Glob == SelectSeq(FileOrder, LAMBDA s : outFiles[s].kind # "absent")

\* load_outputs() from its call to the head of the for loop.
load_outputs(t) ==
    /\ pc[t] = "load"
    /\ LoopFree
    /\ UNCHANGED <<config, mapFile, exeExists, cluster, outFiles, tool,
                   exports, tribelog_buffer, map_last_modified, last_file_states,
                   ingested, occurred, delivered, dirty>>
    /\ IF Glob = <<>>
       THEN Finish(t, "loaded", "")
       ELSE /\ pc' = [pc EXCEPT ![t] = "file"]
            /\ loc' = [loc EXCEPT ![t] = [NoLocals EXCEPT !.files = Glob]]
            /\ event' = Event(t, "load", "")
            /\ UNCHANGED syncing

\* `if waiting > 10: break` inside the wait loop
BreakWait(waiting) == waiting > MAX_WAIT

\* `if waiting > 10: ... continue` after the wait loop
GaveUp_early(waiting) == waiting > 0
GaveUp(waiting) == waiting > MAX_WAIT

\* orjson.loads(raw_file) returns (does not raise)
ParseOk_always(content) == TRUE
ParseOk(content) == content.kind \in {"valid", "null"}

\* `if not dump` is false: the parsed value is truthy
Truthy_always(content) == TRUE
Truthy(content) == content.kind \notin {"null", "empty"}

\* `continue` after a file could not be loaded: nothing is stored for its
\* key, cache.exports is what it was.
OnSkip_drop(key) == [exports EXCEPT ![key] = Absent]
OnSkip(key) == exports

\* One pass over the current file of load_outputs (lines 223-252, 281-287):
\* the target filter, then a size check followed by a sleep, or the read,
\* the parse and (for every key but tribelogs) the store.
LoadFile(t) ==
    /\ pc[t] = "file"
    /\ LoopFree
    /\ UNCHANGED <<config, mapFile, exeExists, cluster, outFiles, tool,
                   tribelog_buffer, map_last_modified, last_file_states,
                   ingested, occurred, delivered, dirty>>
    /\ LET stem == Head(loc[t].files)
           content == outFiles[stem]
           key == KeyOf(stem)
       IN IF SkipsTarget(TargetOf(t), key)
          THEN NextFile(t, "skip_target") /\ UNCHANGED exports
          ELSE IF content.kind = "absent"
          THEN Finish(t, "raised", stem) /\ UNCHANGED exports
          ELSE IF content.kind = "empty"
          THEN IF ~BreakWait(loc[t].waiting + 1)
               THEN /\ loc' = [loc EXCEPT ![t].waiting = @ + 1]
                    /\ event' = Event(t, "wait", stem)
                    /\ UNCHANGED <<pc, syncing, exports>>
               ELSE IF GaveUp(loc[t].waiting + 1)
               THEN NextFile(t, "skip_empty") /\ exports' = OnSkip(key)
               ELSE NextFile(t, "skip_parse") /\ exports' = OnSkip(key)
          ELSE IF GaveUp(loc[t].waiting)
          THEN NextFile(t, "skip_empty") /\ exports' = OnSkip(key)
          ELSE IF ~ParseOk(content)
          THEN NextFile(t, "skip_parse") /\ exports' = OnSkip(key)
          ELSE IF ~Truthy(content)
          THEN NextFile(t, "skip_null") /\ exports' = OnSkip(key)
          ELSE IF key = "tribelogs"
          THEN /\ pc' = [pc EXCEPT ![t] = "precache"]
               /\ loc' = [loc EXCEPT ![t].dump = content, ![t].read = content]
               /\ event' = FileEvent(t, "to_thread", stem, loc[t].waiting)
               /\ UNCHANGED <<exports, syncing>>
          ELSE /\ exports' = [exports EXCEPT ![key] = content]
               /\ NextFile(t, "stored")

\* asyncio.to_thread(_precache, dump): the worker thread runs _precache.
RunPrecache(t) ==
    /\ pc[t] = "precache"
    /\ UNCHANGED <<config, mapFile, exeExists, cluster, outFiles, tool,
                   exports, map_last_modified, last_file_states, delivered, dirty>>
    /\ ingested' = TRUE
    /\ occurred' = occurred \cup PairsOf(loc[t].read.recs)
    /\ LET r == Precache(loc[t].dump.recs, tribelog_buffer)
       IN /\ tribelog_buffer' = r.buf
          /\ IF r.raised
             THEN Finish(t, "raised", Head(loc[t].files))
             ELSE /\ pc' = [pc EXCEPT ![t] = "store"]
                  /\ loc' = [loc EXCEPT ![t].dump = TribeLogs(r.recs),
                                        ![t].seen0 = tribelog_buffer,
                                        ![t].before = occurred,
                                        ![t].first = ~ingested]
                  /\ event' = Event(t, "precached", Head(loc[t].files))
                  /\ UNCHANGED syncing

\* `cache.exports[key] = dump` once the worker thread has returned.
StoreTribeLogs(t) ==
    /\ pc[t] = "store"
    /\ LoopFree
    /\ exports' = [exports EXCEPT ![KeyOf(Head(loc[t].files))] = loc[t].dump]
    /\ delivered' = delivered \cup PairsOf(loc[t].dump.recs)
    /\ NextFile(t, "stored")
    /\ UNCHANGED <<config, mapFile, exeExists, cluster, outFiles, tool,
                   tribelog_buffer, map_last_modified, last_file_states,
                   ingested, occurred, dirty>>

\* ------------------------------------------------------------- environment
\* The game server rewrites the save file; its mtime becomes one of M.  The
\* history variable dirty follows the mtimes where track is set.
MapTouch(M, track) ==
    /\ mapExists
    /\ \E m \in M \ {mapMtime} : mapMtime' = m
    /\ dirty' = (dirty \/ track)
    /\ UNCHANGED <<config, mapExists, exeExists, cluster, outFiles, tool, cacheVars,
                   last_file_states, pc, loc, event, ingested, occurred, delivered>>

\* The save file is removed.
MapDelete ==
    /\ mapExists
    /\ mapExists' = FALSE
    /\ UNCHANGED <<config, mapMtime, exeExists, cluster, outFiles, tool, cacheVars,
                   last_file_states, pc, loc, history>>

\* The save file is back, with a modification time of M.
MapCreate(M, track) ==
    /\ ~mapExists
    /\ mapExists' = TRUE
    /\ \E m \in M : mapMtime' = m
    /\ dirty' = (dirty \/ track)
    /\ UNCHANGED <<config, exeExists, cluster, outFiles, tool, cacheVars,
                   last_file_states, pc, loc, event, ingested, occurred, delivered>>

\* The tool binary is removed or put back.
ExeToggle ==
    /\ exeExists' = ~exeExists
    /\ UNCHANGED <<config, mapFile, cluster, outFiles, tool, cacheVars,
                   last_file_states, pc, loc, history>>

\* A file of the cluster directory is written, created or removed (mtime 0).
AuxWrite ==
    /\ cluster_dir /\ clusterExists
    /\ \E n \in AuxNames, m \in {0} \cup AuxMtimes :
         /\ m # clusterFiles[n]
         /\ clusterFiles' = [clusterFiles EXCEPT ![n] = m]
    /\ dirty' = TRUE
    /\ UNCHANGED <<config, mapFile, exeExists, clusterExists, outFiles, tool,
                   cacheVars, last_file_states, pc, loc, event, ingested, occurred,
                   delivered>>

\* The cluster directory is removed (with its files) or created again.
ClusterToggle ==
    /\ cluster_dir
    /\ clusterExists' = ~clusterExists
    /\ clusterFiles' = [n \in AuxNames |-> 0]
    /\ dirty' = TRUE
    /\ UNCHANGED <<config, mapFile, exeExists, outFiles, tool, cacheVars,
                   last_file_states, pc, loc, event, ingested, occurred, delivered>>

\* The tool launched by the running cycle exits.
ToolExit ==
    /\ toolCur
    /\ toolCur' = FALSE
    /\ UNCHANGED <<config, mapFile, exeExists, cluster, outFiles, toolOld, command,
                   cacheVars, last_file_states, pc, loc, history>>

\* The tools left over from earlier cycles have exited.
StaleExit ==
    /\ toolOld
    /\ toolOld' = FALSE
    /\ UNCHANGED <<config, mapFile, exeExists, cluster, outFiles, toolCur, command,
                   cacheVars, last_file_states, pc, loc, history>>

\* What a running tool can turn the contents c of an output file into, with
\* P the complete contents it may end on: it truncates the file, then writes
\* it in one piece or in two.
Rewrites(c, P) ==
    CASE c.kind = "empty" -> {Partial} \cup P
      [] c.kind = "partial" -> P
      [] OTHER -> {Empty}

\* A running tool writes to one of its output files.
ToolWrite(stem, P) ==
    /\ toolCur \/ toolOld
    /\ \E c \in Rewrites(outFiles[stem], P) :
         outFiles' = [outFiles EXCEPT ![stem] = c]
    /\ UNCHANGED <<config, mapFile, exeExists, cluster, tool, cacheVars,
                   last_file_states, pc, loc, history>>

\* A running tool replaces one of its output files in one piece.
ToolReplace(stem, P) ==
    /\ toolCur \/ toolOld
    /\ \E c \in P \ {outFiles[stem]} :
         outFiles' = [outFiles EXCEPT ![stem] = c]
    /\ UNCHANGED <<config, mapFile, exeExists, cluster, tool, cacheVars,
                   last_file_states, pc, loc, history>>

\* The tool launched by the running cycle writes one of its output files in
\* one piece, as its last act, and exits.
ToolFinish(stem, P) ==
    /\ toolCur
    /\ \E c \in P : outFiles' = [outFiles EXCEPT ![stem] = c]
    /\ toolCur' = FALSE
    /\ UNCHANGED <<config, mapFile, exeExists, cluster, toolOld, command,
                   cacheVars, last_file_states, pc, loc, history>>

\* ------------------------------------------------------------ initial state
\* The state once ArkViewer.initialize has returned True and has created its
\* tasks: the save file, the tool binary and a configured cluster directory
\* exist (tasks.py lines 260-268); the output files are those of an earlier
\* run, drawn from F; the machine has one of cpus CPUs and the configured
\* thread budget is one of budgets.
Installed(windows, clusters, M, F, cpus, budgets) ==
    /\ IS_WINDOWS \in windows
    /\ cpu_count \in cpus
    /\ threads \in budgets
    /\ command = NoCommand
    /\ cluster_dir \in clusters
    /\ reprocess_on_arkdata_update \in (IF cluster_dir THEN BOOLEAN ELSE {FALSE})
    /\ mapExists = TRUE
    /\ mapMtime \in M
    /\ exeExists = TRUE
    /\ clusterExists = cluster_dir
    /\ clusterFiles \in (IF cluster_dir THEN [AuxNames -> {0} \cup AuxMtimes]
                         ELSE {[n \in AuxNames |-> 0]})
    /\ outFiles \in F
    /\ toolCur = FALSE
    /\ toolOld = FALSE
    /\ syncing = FALSE
    /\ exports = [k \in Keys |-> Absent]
    /\ tribelog_buffer = {}
    /\ map_last_modified = Never
    /\ last_file_states = [isset |-> FALSE, m |-> Untracked]
    /\ loc = [t \in Tasks |-> NoLocals]
    /\ event = Event(Startup, "none", "")
    /\ ingested = FALSE
    /\ occurred = {}
    /\ delivered = {}
    /\ dirty = FALSE

\* The tasks initialize creates: the startup load_outputs, and the trigger of
\* process_export (the scheduler's job on Windows, export_loop elsewhere).
Started ==
    [t \in Tasks |->
       IF t = Startup THEN "load"
       ELSE IF IS_WINDOWS THEN "idle"
       ELSE IF t = 1 THEN "start" ELSE "off"]

\* A map file path that initialize accepts.
MapFilePath == <<"a", ":", "/", "a">>

\* The state after initialize has accepted the settings.
InitState(windows, clusters, M, F, cpus, budgets) ==
    /\ Installed(windows, clusters, M, F, cpus, budgets)
    /\ map_file = MapFilePath
    /\ pc = Started

\* The initial states on a machine of four CPUs with the default budget of
\* two threads.
InitWith(windows, clusters, M, F) ==
    /\ InitState(windows, clusters, M, F, {4}, {2})
    /\ target = NoTarget

\* The steps of the program's tasks when the trigger's calls of
\* process_export come from the callers C: the steps up to the for loop of
\* load_outputs, and those of the loop (taken only when there is a file).
Supervision(C) ==
    \/ \E c \in C : export_loop(c)
    \/ \E c \in C : process_export(c)
    \/ \E c \in C : SubprocessReturn(c)
    \/ \E c \in C : wait_for_process_to_exist(c)
    \/ \E c \in C : wait_for_pid_to_stop(c)
    \/ \E t \in {Startup} \cup C : load_outputs(t)

Ingestion(C) ==
    \/ \E t \in {Startup} \cup C : LoadFile(t)
    \/ \E t \in {Startup} \cup C : RunPrecache(t)
    \/ \E t \in {Startup} \cup C : StoreTribeLogs(t)

ProgramOf(C) == Supervision(C) \/ Ingestion(C)

\* Overlapping calls of process_export, and calls that never overlap.
Program == ProgramOf(Callers)
Sequential == ProgramOf({1})

\* ------------------------------------------------ the pipeline (supervision)
\* Complete contents the tool writes here: one payload per opaque dataset
\* version, one tribe-log dataset.
OneLog == TribeLogs(<<Rec(1, <<<<3>>>>)>>)
Complete(stem) ==
    IF KeyOf(stem) = "tribelogs" THEN {OneLog}
    ELSE {Payload(v) : v \in 1 .. MaxVer}

Init == InitWith(BOOLEAN, {FALSE}, Mtimes(WholeSeconds), [Stems -> {Absent}])

Next ==
    \/ Program
    \/ MapTouch(Mtimes(WholeSeconds), FALSE)
    \/ MapDelete
    \/ MapCreate(Mtimes(WholeSeconds), FALSE)
    \/ ToolExit
    \/ StaleExit
    \/ \E s \in Stems : ToolReplace(s, Complete(s))

Spec == Init /\ [][Next]_vars

\* ------------------------------------------------ the output files (ingestion)
\* Complete contents the tool ends a rewrite on here: a payload, or a JSON
\* null; for the tribe logs a one-entry dataset.
Written(stem) ==
    IF KeyOf(stem) = "tribelogs" THEN {OneLog}
    ELSE {Payload(1), Null}

InitIngest == InitWith(BOOLEAN, {FALSE}, Mtimes(WholeSeconds), [Stems -> {Absent}])

NextIngest ==
    \/ Sequential
    \/ MapTouch(Mtimes(WholeSeconds), FALSE)
    \/ ToolExit
    \/ StaleExit
    \/ ToolWrite("ASV_Players", Written("ASV_Players"))
    \/ ToolReplace("ASV_TribeLogs", Written("ASV_TribeLogs"))

SpecIngest == InitIngest /\ [][NextIngest]_vars

\* ------------------------------------------------------- change detection
\* A cluster directory, configured or not, save-file mtimes half a second
\* apart, and a tool that writes no output file (so load_outputs never has
\* a file).
InitDetect == InitWith(BOOLEAN, BOOLEAN, Mtimes(HalfSeconds), [Stems -> {Absent}])

NextDetect ==
    \/ Supervision({1})
    \/ MapTouch(Mtimes(HalfSeconds), TRUE)
    \/ AuxWrite
    \/ ClusterToggle
    \/ ToolExit
    \/ StaleExit

SpecDetect == InitDetect /\ [][NextDetect]_vars

\* ------------------------------------------------------- the export cycle
\* The steps of one task: the startup load_outputs or a caller of
\* process_export.
TaskStep(t) ==
    \/ export_loop(t)
    \/ process_export(t)
    \/ SubprocessReturn(t)
    \/ wait_for_process_to_exist(t)
    \/ wait_for_pid_to_stop(t)
    \/ load_outputs(t)
    \/ LoadFile(t)
    \/ RunPrecache(t)
    \/ StoreTribeLogs(t)

\* Cycles that never overlap, with a tool that writes the player file in
\* pieces, so that a cycle can find it empty.  The event loop runs every task
\* that is ready, and every sleep of a task ends: each task's steps are
\* weakly fair.  Nothing makes the tool exit or the save file change.
InitCycle == InitWith(BOOLEAN, {FALSE}, Mtimes(WholeSeconds), [Stems -> {Absent}])

NextCycle ==
    \/ Sequential
    \/ MapTouch(Mtimes(WholeSeconds), FALSE)
    \/ ToolExit
    \/ StaleExit
    \/ ToolWrite("ASV_Players", {Payload(1)})
    \/ ToolReplace("ASV_TribeLogs", {OneLog})

SpecCycle ==
    /\ InitCycle
    /\ [][NextCycle]_vars
    /\ \A t \in {Startup, 1} : WF_vars(TaskStep(t))

\* ------------------------------------------------------------ the records
\* The per-tribe records a tribe-log file is made of here: a list of one
\* entry, a list of two that ends on it, a list of one entry found in neither,
\* a record without "logs" and one without a tribe identifier; and the
\* datasets of up to MaxRecs such records.
RecordKinds ==
    {Rec(1, <<<<3>>>>), Rec(1, <<<<4>>, <<3>>>>), Rec(1, <<<<2, 3>>>>),
     RecNoLogs(1), Rec(0, <<<<3>>>>)}
Datasets == {TribeLogs(r) : r \in UNION {[1 .. n -> RecordKinds] : n \in 1 .. MaxRecs}}

\* One cycle that overlaps no other, after a start that may find a
\* one-record dataset of an earlier run, with a tool that writes any of these
\* datasets before it exits.
InitRecords ==
    InitWith(BOOLEAN, {FALSE}, {[sec |-> 1, frac |-> 0]},
             {[s \in Stems |-> IF KeyOf(s) = "tribelogs" THEN c ELSE Absent] :
                c \in {Absent} \cup {TribeLogs(<<r>>) : r \in RecordKinds}})

NextRecords ==
    \/ Sequential
    \/ ToolExit
    \/ ToolFinish("ASV_TribeLogs", Datasets)

SpecRecords == InitRecords /\ [][NextRecords]_vars

\* ----------------------------------------------------------- the recovery
\* Cycles that never overlap, a save file that is removed and comes back
\* with any whole-second modification time, and a tool that writes the
\* tribe-log file; each task's steps are weakly fair, as in SpecCycle.
InitRecover == InitWith(BOOLEAN, {FALSE}, Mtimes(WholeSeconds), [Stems -> {Absent}])

NextRecover ==
    \/ Sequential
    \/ MapDelete
    \/ MapCreate(Mtimes(WholeSeconds), FALSE)
    \/ ToolExit
    \/ StaleExit
    \/ ToolReplace("ASV_TribeLogs", {OneLog})

SpecRecover ==
    /\ InitRecover
    /\ [][NextRecover]_vars
    /\ \A t \in {Startup, 1} : WF_vars(TaskStep(t))

\* ------------------------------------------------------------- the tribes
\* Tribe-log files of the tribes 1 and 12: tribe 1 with the entry "23",
\* tribe 12 with the entry "3", both in either order; and tribe 1 with a
\* new entry followed by a record whose "logs" value cannot be iterated.
TribeFiles ==
    {TribeLogs(<<Rec(1, <<<<2, 3>>>>)>>),
     TribeLogs(<<Rec(12, <<<<3>>>>)>>),
     TribeLogs(<<Rec(1, <<<<2, 3>>>>), Rec(12, <<<<3>>>>)>>),
     TribeLogs(<<Rec(12, <<<<3>>>>), Rec(1, <<<<2, 3>>>>)>>),
     TribeLogs(<<Rec(1, <<<<4>>>>), RecBadLogs(1)>>)}

\* One cycle after a start that may find the tribe-log file of an earlier
\* run, with a tool that writes one of these files before it exits.
InitTribes ==
    InitWith(BOOLEAN, {FALSE}, {[sec |-> 1, frac |-> 0]},
             {[s \in Stems |-> IF KeyOf(s) = "tribelogs" THEN c ELSE Absent] :
                c \in {Absent, OneLog} \cup TribeFiles})

NextTribes ==
    \/ Sequential
    \/ ToolExit
    \/ ToolFinish("ASV_TribeLogs", TribeFiles)

SpecTribes == InitTribes /\ [][NextTribes]_vars

\* ------------------------------------------------------------- the target
\* A call load_outputs(target) made outside the cycles, with the files of an
\* earlier run, next to one caller of process_export whose tool rewrites
\* both files.  The targets: each key in lower case and in another case, and
\* a key no file has.
InitTarget ==
    /\ InitState(BOOLEAN, {FALSE}, {[sec |-> 1, frac |-> 0]},
                 [Stems -> {Absent}] \cup {[s \in Stems |->
                    IF KeyOf(s) = "tribelogs" THEN OneLog ELSE Payload(1)]},
                 {4}, {2})
    /\ target \in {"players", "PLAYERS", "tribelogs", "TribeLogs", "creatures"}

NextTarget ==
    \/ Sequential
    \/ ToolExit
    \/ ToolReplace("ASV_Players", {Payload(1), Payload(2)})
    \/ ToolReplace("ASV_TribeLogs", {OneLog, TribeLogs(<<Rec(1, <<<<4>>>>)>>)})

SpecTarget == InitTarget /\ [][NextTarget]_vars

\* ------------------------------------------------------------- the faults
\* A tribe-log file whose record has a "logs" value that cannot be iterated:
\* _precache raises on it.
BadLog == TribeLogs(<<RecBadLogs(1)>>)

\* Cycles that never overlap, with a tool that writes a good or a bad
\* tribe-log file; each task's steps are weakly fair, as in SpecCycle.
InitFault == InitWith(BOOLEAN, {FALSE}, Mtimes(WholeSeconds), [Stems -> {Absent}])

NextFault ==
    \/ Sequential
    \/ MapTouch(Mtimes(WholeSeconds), FALSE)
    \/ ToolExit
    \/ StaleExit
    \/ ToolReplace("ASV_TribeLogs", {OneLog, BadLog})

SpecFault ==
    /\ InitFault
    /\ [][NextFault]_vars
    /\ \A t \in {Startup, 1} : WF_vars(TaskStep(t))

\* ------------------------------------------------------- the preconditions
\* Cycles that never overlap on an installation whose save file, tool binary
\* and (empty) cluster directory can go away and come back between ticks; the
\* tool writes its tribe-log file.
InitPrecond ==
    /\ InitWith(BOOLEAN, {TRUE}, Mtimes(WholeSeconds), [Stems -> {Absent}])
    /\ clusterFiles = [n \in AuxNames |-> 0]

NextPrecond ==
    \/ Sequential
    \/ MapDelete
    \/ MapCreate(Mtimes(WholeSeconds), FALSE)
    \/ ExeToggle
    \/ ClusterToggle
    \/ ToolExit
    \/ StaleExit
    \/ ToolReplace("ASV_TribeLogs", {OneLog})

SpecPrecond == InitPrecond /\ [][NextPrecond]_vars

\* ------------------------------------------------------------ the settings
\* initialize: the map file path of the settings is validated; a rejected
\* path ends the start-up, an accepted one lets the tasks be created.
initialize ==
    /\ pc[Startup] = "initialize"
    /\ IF validate_path(map_file)
       THEN /\ pc' = Started
            /\ event' = Event(Startup, "initialized", "")
       ELSE /\ pc' = [t \in Tasks |-> "refused"]
            /\ event' = Event(Startup, "invalid_path", "")
    /\ UNCHANGED <<config, mapFile, exeExists, cluster, outFiles, tool, cacheVars,
                   last_file_states, loc, ingested, occurred, delivered, dirty>>

\* Every map file path of up to MaxPath characters, before initialize.
InitConfig ==
    /\ Installed({TRUE}, {FALSE}, {[sec |-> 1, frac |-> 0]}, [Stems -> {Absent}],
                 {4}, {2})
    /\ map_file \in Paths
    /\ target = NoTarget
    /\ pc = [t \in Tasks |-> "initialize"]

NextConfig == initialize

SpecConfig == InitConfig /\ [][NextConfig]_vars

\* ------------------------------------------------------ the launch command
\* Machines of one to MaxCpus CPUs, thread budgets from zero to MaxThreads,
\* and a tool that writes no output file.
InitLaunch ==
    /\ InitState(BOOLEAN, {FALSE}, Mtimes(WholeSeconds), [Stems -> {Absent}],
                 1 .. MaxCpus, 0 .. MaxThreads)
    /\ target = NoTarget

NextLaunch ==
    \/ Supervision({1})
    \/ MapTouch(Mtimes(WholeSeconds), FALSE)
    \/ ToolExit
    \/ StaleExit

SpecLaunch == InitLaunch /\ [][NextLaunch]_vars

\* ------------------------------------------------- the tribe-log stream
\* The first n entries a tribe ever logged, oldest first.
LogList(n) == [i \in 1 .. n |-> <<i>>]
LogLists == {LogList(n) : n \in 0 .. MaxLogs}

\* The tribe-log dataset of one tribe with entry list l.
OneTribe(l) == TribeLogs(<<Rec(1, l)>>)

\* l is k with further entries appended.
Extends(l, k) == Len(l) > Len(k) /\ SubSeq(l, 1, Len(k)) = k

\* The tool's log export is a rolling window that here only grows: what the
\* tool may replace the tribe-log file c with.
Grown(c) ==
    IF c.kind = "absent" THEN {OneTribe(l) : l \in LogLists}
    ELSE {OneTribe(l) : l \in {k \in LogLists : Extends(k, c.recs[1].logs)}}

InitDedup ==
    InitWith(BOOLEAN, {FALSE}, Mtimes(WholeSeconds),
             {[s \in Stems |-> IF KeyOf(s) = "tribelogs" THEN c ELSE Absent] :
                c \in {Absent} \cup {OneTribe(l) : l \in LogLists}})

NextDedup ==
    \/ Program
    \/ MapTouch(Mtimes(WholeSeconds), FALSE)
    \/ ToolExit
    \/ StaleExit
    \/ ToolReplace("ASV_TribeLogs", Grown(outFiles["ASV_TribeLogs"]))

SpecDedup == InitDedup /\ [][NextDedup]_vars

\* ------------------------------------------------------------------ claims
\* Caller c is inside the cycle body _process_export.
InCycle(c) == pc[c] \notin {"idle", "start", "off"}

\* The step is a call of process_export by c that found syncing set.
NoopCall(c) ==
    /\ pc[c] = "idle"
    /\ syncing
    /\ event' = Event(c, "noop", "")
    /\ event' # event

\* C1: single-flight.  A call of process_export made while cache.syncing is
\* true launches no tool, changes neither cache.exports, cache.tribelog_buffer
\* nor the change-detection state and leaves syncing true; and at most one
\* caller is inside the cycle body _process_export at any time.
C1_SingleFlight ==
    /\ [](Cardinality({c \in Callers : InCycle(c)}) <= 1)
    /\ [][\A c \in Callers :
            NoopCall(c) =>
              /\ syncing'
              /\ UNCHANGED <<tool, outFiles, exports, tribelog_buffer,
                             map_last_modified, last_file_states, pc, loc>>]_vars

\* A second call arrived while a cycle was waiting for the tool, and was a no-op.
C1_Witness ==
    /\ event.kind = "noop"
    /\ syncing
    /\ \E c \in Callers : pc[c] = "wait_stop" /\ event.task # c

\* C4: cache.tribelog_buffer only grows: no step of the program (a cycle, a
\* failed cycle, wipe_output, load_outputs) removes a hash from it.
C4_BufferMonotone == [][tribelog_buffer \subseteq tribelog_buffer']_vars

\* The save file disappeared after log hashes were recorded, and the wipe ran.
C4_Witness ==
    /\ event.kind = "wipe"
    /\ tribelog_buffer # {}

\* The step is a tick of caller c that starts a cycle (syncing was false).
Tick(c) ==
    /\ pc[c] \in {"idle", "start"}
    /\ ~syncing
    /\ event'.task = c
    /\ event' # event

\* C10: on a tick that finds no save file, no export is attempted (no tool
\* is launched, the change baseline is left alone) and wipe_output runs,
\* after which cache.exports holds no dataset.
C10_Disappearance ==
    [][\A c \in Callers :
         (Tick(c) /\ ~mapExists) =>
           /\ event'.kind = "wipe"
           /\ \A k \in Keys : exports'[k] = Absent
           /\ UNCHANGED <<tool, map_last_modified>>
           /\ pc[c] = "idle" => UNCHANGED last_file_states
           /\ pc'[c] = "idle" /\ ~syncing']_vars

\* A wipe has just emptied a cache that an ingestion had filled: the
\* tribe-log hashes it recorded are still there, the datasets are not.
C10_Witness ==
    /\ event.kind = "wipe"
    /\ ~mapExists
    /\ tribelog_buffer # {}
    /\ \A k \in Keys : exports[k] = Absent

\* The hashes of the entries of a dataset.
HashesOf(recs) == {Hash(p[1], p[2]) : p \in PairsOf(recs)}

\* C2: in a sequence of tribe-log ingestions for one tribe in which each
\* entry list extends the one before, the first ingestion stores no entry and
\* every later one stores exactly the entries that occurred in no earlier
\* ingestion.
C2_ExtendingDeltas ==
    \A t \in Tasks :
      pc[t] = "store" =>
        PairsOf(loc[t].dump.recs) =
          IF loc[t].first THEN {} ELSE PairsOf(loc[t].read.recs) \ loc[t].before

FileStep(t) ==
    /\ pc[t] = "file"
    /\ pc'[t] # pc[t] \/ loc'[t] # loc[t]

\* The contents of the file task t is at.
CurrentFile(t) == outFiles[Head(loc[t].files)]

\* A dataset as _precache returns it: every record has a tribe and a
\* non-empty list of retained entries.
Filtered(c) ==
    \A i \in 1 .. Len(c.recs) :
      c.recs[i].logkind = "list" /\ c.recs[i].tribeid # 0 /\ c.recs[i].logs # <<>>

\* C5: every entry of cache.exports is absent or a complete, valid payload
\* the tool wrote (never an empty or truncated file's contents); the
\* tribelogs entry is a completely filtered dataset.
C5_CacheValid ==
    \A k \in Keys :
      \/ exports[k] = Absent
      \/ /\ exports[k].kind = "valid"
         /\ IF k = "tribelogs" THEN Filtered(exports[k])
            ELSE exports[k] \in Written(StemOf(k))

\* The cache holds a dataset while the tool has truncated or half written
\* the file it came from, and an ingestion has just passed over that file.
C5_Witness ==
    /\ event.kind \in {"skip_parse", "skip_empty"}
    /\ outFiles[event.stem].kind \in {"partial", "empty"}
    /\ exports[KeyOf(event.stem)].kind = "valid"

\* C6: an ingestion that cannot parse a file skips it and leaves
\* cache.exports as it was: a dataset stored earlier under the key stays.
C6_SkipKeeps ==
    [][\A t \in Tasks :
         (FileStep(t) /\ CurrentFile(t).kind = "partial") =>
           /\ event'.kind = "skip_parse"
           /\ exports' = exports]_vars

\* A file with a dataset in the cache was skipped on a parse error.
C6_Witness ==
    /\ event.kind = "skip_parse"
    /\ exports[KeyOf(event.stem)].kind = "valid"

\* C7: load_outputs gives up on a file for a parse error only after three
\* failed attempts to parse it.
C7_ThreeAttempts == event.kind = "skip_parse" => event.tries >= 3

C9_Idempotent ==
    [][\A c \in Callers :
         (/\ Tick(c)
          /\ IS_WINDOWS
          /\ event = Event(c, "loaded", "")
          /\ ToolPids = {}
          /\ mapExists /\ exeExists
          /\ map_last_modified # Never
          /\ ~dirty) =>
           /\ event'.kind = "unchanged"
           /\ UNCHANGED <<tool, map_last_modified>>]_vars

\* The number a sequence of hexadecimal digits stands for.
RECURSIVE HexValue(_)
HexValue(h) ==
    IF h = <<>> THEN 0 ELSE 16 * HexValue(SubSeq(h, 1, Len(h) - 1)) + h[Len(h)]

\* 2^i
RECURSIVE Pow2(_)
Pow2(i) == IF i = 0 THEN 1 ELSE 2 * Pow2(i - 1)

\* The sum of 2^i over the CPU indices lo .. hi.
RECURSIVE SumPow(_, _)
SumPow(lo, hi) == IF lo > hi THEN 0 ELSE Pow2(hi) + SumPow(lo, hi - 1)

\* C11: for c >= 1 CPUs and a thread budget n >= 1, get_affinity_mask(n) is
\* the sum of 2^i over the N = min(n, c) highest CPU indices c-N .. c-1; CPU 0
\* is selected only when N = c; and this is the mask a launch on Windows puts
\* after /AFFINITY.
C11_AffinityMask ==
    threads >= 1 =>
      LET N == Min(threads, cpu_count)
          mask == HexValue(get_affinity_mask(cpu_count, threads))
      IN /\ mask = SumPow(cpu_count - N, cpu_count - 1)
         /\ mask % 2 = 1 => N = cpu_count
         /\ (IS_WINDOWS /\ command # NoCommand) =>
              command.mask = get_affinity_mask(cpu_count, threads)

\* With four CPUs and a budget of two the launch used the mask 0xc.
C11_Witness ==
    /\ IS_WINDOWS
    /\ cpu_count = 4 /\ threads = 2
    /\ command.mask = <<12>>

\* C12: validate_path is false for every path that contains, at any position,
\* whitespace or a character outside letters, digits and _ . : / \, and true
\* for every non-empty path made of those characters only.
C12_ValidatePath ==
    pc[Startup] # "initialize" =>
      /\ (\E i \in 1 .. Len(map_file) : map_file[i] \notin PathChars)
           => event.kind = "invalid_path"
      /\ (\A i \in 1 .. Len(map_file) : map_file[i] \in PathChars)
           => event.kind = "initialized"

\* C13: every export cycle that has set syncing eventually sets it back to
\* false, whatever the outcome of the cycle.
C13_BackToIdle == syncing ~> ~syncing

\* C14: whenever a cycle starts load_outputs, the tool process that cycle
\* launched has terminated or failed to start, and the cycle reads no output
\* file while the tool it launched is still running.
C14_ToolDoneBeforeLoad ==
    [][\A c \in Callers : (load_outputs(c) \/ LoadFile(c)) => ~toolCur]_vars

\* Task t is inside the for loop of load_outputs (its dedup step included).
Loading(t) == pc[t] \in {"file", "precache", "store"}

\* The step changes cache.exports or cache.tribelog_buffer.
Mutation == exports' # exports \/ tribelog_buffer' # tribelog_buffer

\* C15: single writer.  No two executions of load_outputs are in progress at
\* the same time, and every change of cache.exports and of
\* cache.tribelog_buffer is a step of an export cycle, made while that cycle
\* holds the single-flight flag.
C15_SingleWriter ==
    /\ [](Cardinality({t \in Tasks : Loading(t)}) <= 1)
    /\ [][Mutation =>
            \E c \in Callers : TaskStep(c) /\ (syncing \/ ~InCycle(c))]_vars

\* The entries of a dataset whose hash is not in the set seen.
Unseen(recs, seen) == {p \in PairsOf(recs) : Hash(p[1], p[2]) \notin seen}

\* C16: the first tribe-log ingestion since process start records the hash
\* of every entry it reads and retains no entry; every later ingestion
\* retains each entry whose hash was not yet recorded, whatever the earlier
\* ingestions held (an ingestion without any entry included).
C16_FirstRunOnly ==
    \A t \in Tasks :
      pc[t] = "store" =>
        IF loc[t].first
        THEN /\ PairsOf(loc[t].dump.recs) = {}
             /\ HashesOf(loc[t].read.recs) \subseteq tribelog_buffer
        ELSE Unseen(loc[t].read.recs, loc[t].seen0) \subseteq PairsOf(loc[t].dump.recs)

\* The step launches the tool (the change check said an export is needed).
Launches == event'.kind \in {"launch", "launch_error"}

\* Some extension-less file of the cluster directory is not in the tracking
\* map, or has a modification time other than the tracked one.
AuxChanged ==
    \E n \in AuxNames :
      /\ ~HasSuffix(n)
      /\ clusterFiles[n] # 0
      /\ last_file_states.m[n] # clusterFiles[n]

\* C17: with the cluster directory watched, the tracking map seeded and the
\* save file's modification time equal to the baseline, a tick decides that
\* an export is needed exactly when some extension-less file of the
\* directory is new or has a modification time other than the tracked one.
C17_AuxDetection ==
    [][\A c \in Callers :
         (/\ Tick(c)
          /\ mapExists /\ exeExists
          /\ reprocess_on_arkdata_update /\ cluster_dir /\ clusterExists
          /\ last_file_states.isset
          /\ map_last_modified = mapMtime) =>
           (Launches <=> AuxChanged)]_vars

\* C18: whenever the save file and the tool binary exist and the save
\* file's modification time, in whole seconds, differs from the baseline, a
\* tick launches the tool and takes that time as the new baseline, whatever
\* the cluster directory and the tracking map hold.
C18_SaveChangeLaunches ==
    [][\A c \in Callers :
         (/\ Tick(c)
          /\ mapExists /\ exeExists
          /\ IntSec(mapMtime) # IntSec(map_last_modified)) =>
           /\ Launches
           /\ map_last_modified' = mapMtime
           /\ command' = Command(IS_WINDOWS, cpu_count, threads)]_vars

\* A cycle has launched the tool beside the one an earlier cycle left
\* running, with the cluster directory watched and its only extension-less
\* file tracked at its current modification time: the save file alone had
\* changed.
C18_Witness ==
    /\ event.kind = "launch"
    /\ toolCur /\ toolOld
    /\ reprocess_on_arkdata_update /\ clusterExists
    /\ last_file_states.isset
    /\ clusterFiles["cluster1"] # 0
    /\ ~AuxChanged
    /\ map_last_modified = mapMtime

\* The tool that cycle c launched has run to completion and the cycle has
\* seen it: subprocess.run has returned (Linux), or the pid the cycle waits
\* for is that of its own tool and is gone (Windows).
RanToCompletion(c) ==
    \/ ~IS_WINDOWS /\ pc[c] = "wait_exist"
    \/ IS_WINDOWS /\ pc[c] = "wait_stop" /\ loc[c].pid = "cur" /\ ~toolCur

\* C19: on both platforms a cycle whose tool has run to completion goes on
\* to load_outputs; it does not return to idle without ingesting.
C19_CompletedToolIngests ==
    [][\A c \in Callers : RanToCompletion(c) => pc'[c] # "idle"]_vars

\* The last thing the program did was to end a cycle of caller c that had
\* launched the tool and failed: no tool process appeared, or the cycle gave
\* up waiting for a tool that is still running.
FailedCycle(c) ==
    /\ pc[c] = "idle"
    /\ event.task = c
    /\ \/ event.kind = "no_pid"
       \/ event.kind = "loaded" /\ toolCur

\* C20: after a cycle that launched the tool and failed, the baseline is the
\* save file's modification time of that cycle's start, and a tick before
\* which no modification time has changed since the last change check
\* launches nothing and leaves the baseline alone.
C20_NoHotLoop ==
    [][\A c \in Callers :
         (/\ Tick(c)
          /\ FailedCycle(c)
          /\ mapExists /\ exeExists
          /\ ~dirty) =>
           /\ map_last_modified = mapMtime
           /\ event'.kind = "unchanged"
           /\ UNCHANGED <<tool, map_last_modified>>]_vars

\* The step is one of cycle c from its launch to the end of the wait for a
\* tool process to appear.
LaunchPhase(c) ==
    /\ TaskStep(c)
    /\ \/ pc[c] \in {"blocked", "wait_exist"}
       \/ pc'[c] \in {"blocked", "wait_exist"}

\* C21: when no process of the tool's name has appeared by the end of the
\* wait, the cycle ends there: it returns to idle with the flag cleared and
\* without calling load_outputs, and no step of the cycle up to that point
\* has changed cache.exports or cache.tribelog_buffer.
C21_NoToolNoIngestion ==
    [][\A c \in Callers :
         /\ LaunchPhase(c) => UNCHANGED <<exports, tribelog_buffer>>
         /\ (pc[c] = "wait_exist" /\ ToolPids = {} /\ pc'[c] # pc[c]) =>
              /\ event' = Event(c, "no_pid", "")
              /\ pc'[c] = "idle"
              /\ ~syncing']_vars

\* A cycle has just ended because no tool process appeared, on Windows, with
\* a dataset of an earlier ingestion still in the cache.
C21_Witness ==
    /\ IS_WINDOWS
    /\ event.kind = "no_pid"
    /\ pc[event.task] = "idle"
    /\ ~syncing
    /\ \E k \in Keys : exports[k] # Absent

\* C22: a cycle whose launch has raised an error is over: it does not go on
\* to call load_outputs.
C22_LaunchErrorNoIngestion ==
    [][\A c \in Callers :
         event = Event(c, "launch_error", "") => ~load_outputs(c)]_vars

\* The tick of caller c is skipped: nothing is launched, cache.exports,
\* cache.tribelog_buffer, the baseline and the tracking map (beyond the
\* seeding at the start of export_loop) are left alone, and the caller is
\* back between two ticks with the flag cleared.
Skipped(c) ==
    /\ UNCHANGED <<tool, exports, tribelog_buffer, map_last_modified>>
    /\ pc[c] = "idle" => UNCHANGED last_file_states
    /\ pc'[c] = "idle"
    /\ ~syncing'

\* C23 as stated: whenever the tool binary is missing at tick time, the tick
\* is skipped.
C23_NoExeSkips ==
    [][\A c \in Callers : (Tick(c) /\ ~exeExists) => Skipped(c)]_vars

\* C23 amended: whenever the save file exists and the tool binary is missing
\* at tick time, the tick is skipped after the check of the binary.
C23_NoExeSkipsWithSave ==
    [][\A c \in Callers :
         (Tick(c) /\ mapExists /\ ~exeExists) =>
           event'.kind = "no_exe" /\ Skipped(c)]_vars

\* A tick has just been skipped for want of the binary, with a baseline set
\* and a dataset in the cache.
C23_Witness ==
    /\ event.kind = "no_exe"
    /\ ~exeExists /\ mapExists
    /\ map_last_modified # Never
    /\ exports["tribelogs"] # Absent
    /\ tribelog_buffer # {}

\* C24: whenever a cluster directory is configured and does not exist at tick
\* time, the tick launches no tool process and the caller is back between
\* two ticks.
C24_NoClusterDirSkips ==
    [][\A c \in Callers :
         (Tick(c) /\ cluster_dir /\ ~clusterExists) =>
           /\ ~Launches
           /\ UNCHANGED tool
           /\ pc'[c] = "idle"]_vars

\* The last thing the program did was a step of cycle c that raised an
\* exception: at the launch, or inside load_outputs.
Raised(c) == event.task = c /\ event.kind \in {"raised", "launch_error"}

SkipsEmpty(t) ==
    /\ pc[t] = "file"
    /\ event' # event
    /\ event'.task = t
    /\ event'.kind = "skip_empty"

\* C26: a file is waited on at most MAX_WAIT + 1 times; when load_outputs
\* gives up on a file that stayed empty it has waited that often, it leaves
\* cache.exports as it was, and it goes on with the files after it (it ends
\* normally, the flag cleared, when there is none).
C26_EmptyFileSkipped ==
    /\ [](\A t \in Tasks : loc[t].waiting <= MAX_WAIT)
    /\ [][\A t \in Tasks :
            SkipsEmpty(t) =>
              /\ loc[t].waiting = MAX_WAIT
              /\ exports' = exports
              /\ IF Tail(loc[t].files) # <<>>
                 THEN /\ pc'[t] = "file"
                      /\ loc'[t].files = Tail(loc[t].files)
                      /\ loc'[t].waiting = 0
                      /\ UNCHANGED syncing
                 ELSE /\ pc'[t] \in {"idle", "done"}
                      /\ t # Startup => ~syncing']_vars

\* A cycle has given up on the empty player file, whose dataset of an
\* earlier ingestion is still in the cache, and is at the tribe-log file.
C26_Witness ==
    /\ event.kind = "skip_empty"
    /\ event.stem = "ASV_Players"
    /\ event.task = 1
    /\ exports["players"].kind = "valid"
    /\ pc[1] = "file"
    /\ loc[1].files = <<"ASV_TribeLogs">>

\* C27: a file whose parsed value is null or empty is skipped without an
\* error: nothing is written to cache.exports, load_outputs goes on with the
\* files after it, and it ends normally when there is none.
C27_NullNotCached ==
    [][\A t \in Tasks :
         (FileStep(t) /\ CurrentFile(t).kind = "null") =>
           /\ event'.kind = "skip_null"
           /\ exports' = exports
           /\ UNCHANGED tribelog_buffer
           /\ IF Tail(loc[t].files) # <<>>
              THEN pc'[t] = "file" /\ loc'[t].files = Tail(loc[t].files)
              ELSE pc'[t] \in {"idle", "done"}]_vars

\* A cycle has skipped a player file holding null, with an earlier dataset
\* of the key in the cache, and is at the tribe-log file.
C27_Witness ==
    /\ event.kind = "skip_null"
    /\ event.task = 1
    /\ exports[KeyOf(event.stem)].kind = "valid"
    /\ pc[1] = "file"
    /\ loc[1].files = <<"ASV_TribeLogs">>

\* `"logs" not in i` or `not tribe_id` (lines 258-262): the record takes no
\* part in the deduplication.
Lacking(r) == r.logkind = "missing" \/ r.tribeid = 0

\* C28: every record of the tribe-log file that lacks a tribe identifier or
\* a log list is in the dataset stored in cache.exports, unchanged, and no
\* hash of an entry of it is added to cache.tribelog_buffer.
C28_PassThrough ==
    [][\A t \in Tasks :
         LET recs == loc[t].read.recs
         IN /\ (pc[t] = "precache" /\ pc'[t] # "precache") =>
                 \A i \in DOMAIN recs :
                   Lacking(recs[i]) =>
                     \A j \in DOMAIN recs[i].logs :
                       Hash(recs[i].tribeid, recs[i].logs[j])
                         \notin tribelog_buffer' \ tribelog_buffer
            /\ (pc[t] = "store" /\ pc'[t] # "store") =>
                 \A i \in DOMAIN recs :
                   Lacking(recs[i]) =>
                     \E j \in DOMAIN exports'["tribelogs"].recs :
                       exports'["tribelogs"].recs[j] = recs[i]]_vars

\* The entries of logs whose hash is new at their turn, with buf the hashes
\* seen before logs: what `if key in cache.tribelog_buffer: continue` and
\* `if not first_run` (lines 264-270) let through.
RECURSIVE Retained(_, _, _, _)
Retained(tid, logs, buf, first_run) ==
    IF logs = <<>> \/ first_run THEN <<>>
    ELSE IF Hash(tid, Head(logs)) \in buf
    THEN Retained(tid, Tail(logs), buf, first_run)
    ELSE <<Head(logs)>>
           \o Retained(tid, Tail(logs), buf \cup {Hash(tid, Head(logs))}, first_run)

\* The records of recs that carry a tribe identifier and a list of entries
\* of which one at least is retained, each with its retained entries; the
\* hashes seen before record i are those of buf and of the records before it.
Kept(recs, buf) ==
    LET keep(i) == Retained(recs[i].tribeid, recs[i].logs,
                            buf \cup HashesOf(SubSeq(recs, 1, i - 1)), buf = {})
        F[i \in 0 .. Len(recs)] ==
            IF i = 0 THEN <<>>
            ELSE IF Lacking(recs[i]) \/ keep(i) = <<>>
            THEN F[i - 1]
            ELSE Append(F[i - 1], [recs[i] EXCEPT !.logs = keep(i)])
    IN F[Len(recs)]

\* C29: after the deduplication, the dataset about to be stored holds, in
\* the order of the file, the records with a tribe identifier and a log list
\* that have one retained entry at least, and each carries exactly its
\* retained entries in their original order.
C29_KeptIffRetained ==
    \A t \in Tasks :
      pc[t] = "store" =>
        loc[t].dump.recs = Kept(loc[t].read.recs, loc[t].seen0)

\* A cycle has filtered a file of two records of one tribe: the first lost
\* its entry seen at the start, the second kept one of its two entries.
C29_Witness ==
    /\ pc[1] = "store"
    /\ loc[1].seen0 = {Hash(1, <<3>>)}
    /\ loc[1].read.recs = <<Rec(1, <<<<3>>>>), Rec(1, <<<<4>>, <<3>>>>)>>
    /\ loc[1].dump.recs = <<Rec(1, <<<<4>>>>)>>

\* C30: a step of load_outputs(target) with a non-empty target leaves every
\* entry of cache.exports whose key is not the target in lower case as it
\* was, and changes cache.tribelog_buffer only when that key is tribelogs.
C30_TargetOnly ==
    [][(TaskStep(Startup) /\ target # NoTarget) =>
         /\ \A key \in Keys :
              key # Lower(target) => exports'[key] = exports[key]
         /\ tribelog_buffer' # tribelog_buffer => Lower(target) = "tribelogs"]_vars

\* load_outputs("PLAYERS") has ended: it has stored the player file and has
\* left the key of the tribe-log file, which is there, out of the cache.
C30_Witness ==
    /\ target = "PLAYERS"
    /\ pc[Startup] = "done"
    /\ event.task = Startup
    /\ event.kind = "skip_target"
    /\ event.stem = "ASV_TribeLogs"
    /\ exports["players"].kind = "valid"
    /\ outFiles["ASV_TribeLogs"].kind = "valid"
    /\ exports["tribelogs"] = Absent
    /\ tribelog_buffer = {}

\* C31: while last_file_states is None, a step seeds it only when the
\* cluster directory is configured and exists, and then with the mtime of
\* each extension-less file there is; otherwise it stays None; and a tick
\* that launches the tool does so because of the save file (no baseline yet,
\* or another whole second), never because of what the scan returned.
C31_FirstScanSeeds ==
    [][~last_file_states.isset =>
         /\ IF last_file_states'.isset
            THEN cluster_dir /\ clusterExists /\ last_file_states'.m = Seeded
            ELSE last_file_states' = last_file_states
         /\ \A c \in Callers :
              (TaskStep(c) /\ Launches) =>
                \/ map_last_modified = Never
                \/ IntSec(map_last_modified) # IntSec(mapMtime)]_vars

\* On Windows the first scan is made by a tick after the first launch: it
\* has seeded the map with the file of the cluster directory and the tick
\* has ended without a launch.
C31_Witness ==
    /\ IS_WINDOWS
    /\ event = Event(1, "unchanged", "")
    /\ last_file_states.isset
    /\ clusterFiles["cluster1"] # 0
    /\ last_file_states.m = Seeded
    /\ ~toolCur /\ ~toolOld

\* C32: the command launched on Linux pins the tool to exactly the N cores
\* 0 .. N-1, with N the smaller of the thread budget and the CPU count.
C32_CoreRange ==
    (~IS_WINDOWS /\ command # NoCommand) =>
      LET N == Min(threads, cpu_count)
      IN /\ CoresOf(command.cpu_range) = 0 .. N - 1
         /\ Cardinality(CoresOf(command.cpu_range)) = N

\* C32 for a thread budget of one at least.
C32_CoreRangeOfBudget ==
    (~IS_WINDOWS /\ command # NoCommand /\ threads >= 1) =>
      LET N == Min(threads, cpu_count)
      IN /\ CoresOf(command.cpu_range) = 0 .. N - 1
         /\ Cardinality(CoresOf(command.cpu_range)) = N

\* With three CPUs and a budget of five the launch on Linux used the range
\* 0-2.
C32_Witness ==
    /\ ~IS_WINDOWS
    /\ cpu_count = 3 /\ threads = 5
    /\ command.cpu_range = <<0, 2>>

\* C33: when _precache ends in an ingestion that is not the first-run
\* baseline (the buffer held a hash already), every hash it has added to
\* cache.tribelog_buffer is the hash of an entry of the dataset the
\* ingestion goes on to store; and when it ends by raising, it has added no
\* hash.
C33_SeenOnlyIfStored ==
    [][\A t \in Tasks :
         (pc[t] = "precache" /\ pc'[t] # "precache" /\ tribelog_buffer # {}) =>
           LET inserted == tribelog_buffer' \ tribelog_buffer
           IN IF pc'[t] = "store"
              THEN inserted \subseteq HashesOf(loc'[t].dump.recs)
              ELSE inserted = {}]_vars

\* C34: at most one tool process is running at any time: the tool launched
\* by the running cycle is never alive together with one launched by an
\* earlier cycle.
C34_OneTool == ~(toolCur /\ toolOld)

\* C35: once a tick has wiped the outputs because the save file was gone,
\* and the save file is back while the tool binary exists, a later tick
\* launches the tool (unless the save file is gone again by then).
C35_Recovers ==
    (event.kind = "wipe" /\ mapExists /\ exeExists)
      ~> (event.kind \in {"launch", "launch_error"} \/ ~mapExists)

\* C36: an ingestion that is not the first-run baseline (the buffer held a
\* hash already) stores every <<tribe, entry>> pair of the file that no
\* earlier run of _precache has met: an entry is left out only because the
\* same pair was seen before.
C36_SamePairOnly ==
    \A t \in Tasks :
      (pc[t] = "store" /\ loc[t].seen0 # {}) =>
        PairsOf(loc[t].read.recs) \ loc[t].before \subseteq PairsOf(loc[t].dump.recs)

\* The number of bits set in a mask: the CPUs it selects.
RECURSIVE BitCount(_)
BitCount(n) == IF n = 0 THEN 0 ELSE (n % 2) + BitCount(n \div 2)

\* The number of CPUs get_affinity_mask(n) selects on a machine of c CPUs.
Selected(c, n) == BitCount(HexValue(get_affinity_mask(c, n)))

\* C37: for the CPU count and every thread budget n >= 0 of the
\* configuration, the mask a launch on Windows has got from
\* get_affinity_mask selects at most max(1, n) CPUs, and no fewer than
\* get_affinity_mask selects for a smaller budget.
C37_SelectedBounded ==
    (IS_WINDOWS /\ command # NoCommand /\ threads >= 0) =>
      LET selected == BitCount(HexValue(command.mask))
      IN /\ selected = Selected(cpu_count, threads)
         /\ selected <= (IF threads > 1 THEN threads ELSE 1)
         /\ \A m \in 0 .. threads : Selected(cpu_count, m) <= selected

====
